---- MODULE Spec2Model ----
(***************************************************************************)
(* Model of Signals.h: Signal / Connection / Delegate.                     *)
(*                                                                         *)
(* Objects are identified by their address: a Signal is a number in        *)
(* SignalIds, a Connection a number in ConnIds, the null pointer is NULL.   *)
(* An address whose object has been destroyed may be handed out again by   *)
(* a later construction (operator new may reuse released storage).         *)
(*                                                                         *)
(* Every public operation is one action.  Signal::operator() calls back    *)
(* into user code (the delegates), so it is modelled by its loop           *)
(* positions: a stack of frames, one per emission in progress.             *)
(***************************************************************************)
EXTENDS Integers, Sequences, FiniteSets, TLC

\* bounds of the model
MaxConns == 3
MaxSignals == 2
MaxDepth == 2
MaxOps == 1

NULL == 0
ConnIds == 1..MaxConns
SignalIds == 1..MaxSignals
\* longest walk over a next_ chain that the operators below unfold
Fuel == MaxConns + 1
\* most events one dispatch pass records
MaxLog == MaxConns + MaxOps + 2

VARIABLES
  sigLive,       \* sigLive[s]: Signal s is constructed and not yet destroyed
  connections_,  \* Signal::connections_
  sig_blocked_,  \* Signal::blocked_
  connLive,      \* connLive[c]: Connection c is constructed and not yet destroyed
  delegate_,     \* Connection::delegate_: TRUE while the heap delegate is owned
  signal_,       \* Connection::signal_
  next_,         \* Connection::next_
  blocked_,      \* Connection::blocked_
  stack,         \* emissions in progress, innermost last
  reg,           \* history: per Signal, the registered Connections in order of registration
  lastOp         \* history: the last operation called from outside an emission, and the heap before it

heapVars == <<sigLive, connections_, sig_blocked_, connLive, delegate_, signal_, next_, blocked_>>
vars == <<sigLive, connections_, sig_blocked_, connLive, delegate_, signal_, next_, blocked_, stack, reg, lastOp>>

\* the objects' fields as one record, so that operations compose
Heap ==
  [sigLive |-> sigLive, connections_ |-> connections_, sig_blocked_ |-> sig_blocked_,
   connLive |-> connLive, delegate_ |-> delegate_, signal_ |-> signal_,
   next_ |-> next_, blocked_ |-> blocked_]

SetHeap(H) ==
  /\ sigLive' = H.sigLive
  /\ connections_' = H.connections_
  /\ sig_blocked_' = H.sig_blocked_
  /\ connLive' = H.connLive
  /\ delegate_' = H.delegate_
  /\ signal_' = H.signal_
  /\ next_' = H.next_
  /\ blocked_' = H.blocked_

----------------------------------------------------------------------------
\* sequence helpers

RECURSIVE Reverse(_)
Reverse(q) == IF q = <<>> THEN <<>> ELSE Append(Reverse(Tail(q)), Head(q))

Range(q) == {q[i] : i \in 1..Len(q)}

Without(q, x) == SelectSeq(q, LAMBDA y : y # x)

NoDup(q) == \A i, j \in 1..Len(q) : i # j => q[i] # q[j]

\* the elements of q that come after the first occurrence of x
RECURSIVE After(_, _)
After(q, x) ==
  IF q = <<>> THEN <<>>
  ELSE IF Head(q) = x THEN Tail(q) ELSE After(Tail(q), x)

----------------------------------------------------------------------------
\* the list of a Signal

\* the Connections met by following next_ from c, at most n of them
RECURSIVE Walk(_, _, _)
Walk(H, c, n) ==
  IF c = NULL \/ n = 0 THEN <<>>
  ELSE <<c>> \o Walk(H, H.next_[c], n - 1)

\* Signal::connections(): the list of s, head first
ListIn(H, s) == Walk(H, H.connections_[s], Fuel)
List(s) == ListIn(Heap, s)

----------------------------------------------------------------------------
\* Signal

\* a connect that appends p behind the last Connection of the list
connect_tail(H, s, p) ==
  LET l == ListIn(H, s)
  IN IF l = <<>>
     THEN [H EXCEPT !.connections_[s] = p,
                    !.next_[p] = NULL,
                    !.signal_[p] = s]
     ELSE [H EXCEPT !.next_[l[Len(l)]] = p,
                    !.next_[p] = NULL,
                    !.signal_[p] = s]

\* a connect that forgets to chain the old head behind p
connect_nochain(H, s, p) ==
  [H EXCEPT !.connections_[s] = p,
            !.signal_[p] = s]

\* Signal::connect
connect(H, s, p) ==
  [H EXCEPT !.next_[p] = H.connections_[s],
            !.connections_[s] = p,
            !.signal_[p] = s]

\* the first Connection from c on whose next() is conn (the while loop of disconnect)
RECURSIVE FindPrev(_, _, _, _)
FindPrev(H, c, conn, n) ==
  IF c = NULL \/ n = 0 THEN NULL
  ELSE IF H.next_[c] = conn THEN c
  ELSE FindPrev(H, H.next_[c], conn, n - 1)

\* a disconnect that empties the list when conn is the head
disconnect_headnull(H, s, conn) ==
  IF H.connections_[s] = conn
  THEN [H EXCEPT !.connections_[s] = NULL,
                 !.next_[conn] = NULL,
                 !.signal_[conn] = NULL]
  ELSE LET p == FindPrev(H, H.connections_[s], conn, Fuel)
       IN IF p = NULL THEN H
          ELSE [H EXCEPT !.next_[p] = H.next_[conn],
                         !.next_[conn] = NULL,
                         !.signal_[conn] = NULL]

\* a disconnect that clears conn's links whether or not it found conn
disconnect_clearabsent(H, s, conn) ==
  IF H.connections_[s] = conn
  THEN [H EXCEPT !.connections_[s] = H.next_[conn],
                 !.next_[conn] = NULL,
                 !.signal_[conn] = NULL]
  ELSE LET p == FindPrev(H, H.connections_[s], conn, Fuel)
       IN IF p = NULL
          THEN [H EXCEPT !.next_[conn] = NULL,
                         !.signal_[conn] = NULL]
          ELSE [H EXCEPT !.next_[p] = H.next_[conn],
                         !.next_[conn] = NULL,
                         !.signal_[conn] = NULL]

\* a disconnect that relinks the predecessor after clearing conn's next_
disconnect_latelink(H, s, conn) ==
  IF H.connections_[s] = conn
  THEN [H EXCEPT !.connections_[s] = H.next_[conn],
                 !.next_[conn] = NULL,
                 !.signal_[conn] = NULL]
  ELSE LET p == FindPrev(H, H.connections_[s], conn, Fuel)
       IN IF p = NULL THEN H
          ELSE [H EXCEPT !.next_[p] = NULL,
                         !.next_[conn] = NULL,
                         !.signal_[conn] = NULL]

\* Signal::disconnect
disconnect(H, s, conn) ==
  IF H.connections_[s] = conn
  THEN [H EXCEPT !.connections_[s] = H.next_[conn],
                 !.next_[conn] = NULL,
                 !.signal_[conn] = NULL]
  ELSE LET p == FindPrev(H, H.connections_[s], conn, Fuel)
       IN IF p = NULL THEN H
          ELSE [H EXCEPT !.next_[p] = H.next_[conn],
                         !.next_[conn] = NULL,
                         !.signal_[conn] = NULL]

\* a destructor loop that reads p->next() only after disconnect(p)
RECURSIVE DestroyLoop_nextafter(_, _, _, _)
DestroyLoop_nextafter(H, s, p, n) ==
  IF p = NULL \/ n = 0 THEN H
  ELSE LET H1 == disconnect(H, s, p)
       IN DestroyLoop_nextafter(H1, s, H1.next_[p], n - 1)

\* the loop of Signal::~Signal, from position p
RECURSIVE DestroyLoop(_, _, _, _)
DestroyLoop(H, s, p, n) ==
  IF p = NULL \/ n = 0 THEN H
  ELSE LET nx == H.next_[p]
       IN DestroyLoop(disconnect(H, s, p), s, nx, n - 1)

\* a destructor that leaves the Connections of s as they are
destroySignal_noloop(H, s) ==
  [H EXCEPT !.sigLive[s] = FALSE,
            !.sig_blocked_[s] = FALSE]

\* Signal::~Signal; the storage of s is released afterwards
destroySignal(H, s) ==
  LET H1 == DestroyLoop(H, s, H.connections_[s], Fuel)
  IN [H1 EXCEPT !.sigLive[s] = FALSE,
                !.sig_blocked_[s] = FALSE]

\* Signal::Signal()
newSignal(H, s) ==
  [H EXCEPT !.sigLive[s] = TRUE,
            !.connections_[s] = NULL,
            !.sig_blocked_[s] = FALSE]

\* a copy constructor that also copies the head pointer
copySignal_shallow(H, other, s) ==
  [H EXCEPT !.sigLive[s] = TRUE,
            !.connections_[s] = H.connections_[other],
            !.sig_blocked_[s] = H.sig_blocked_[other]]

\* Signal::Signal(const Signal& other)
copySignal(H, other, s) ==
  [H EXCEPT !.sigLive[s] = TRUE,
            !.connections_[s] = NULL,
            !.sig_blocked_[s] = H.sig_blocked_[other]]

\* an emission that does not test blocked()
firstConn_noblock(H, s) == H.connections_[s]

\* Signal::operator(): the blocked() test and "auto c = connections_"
firstConn(H, s) == IF H.sig_blocked_[s] THEN NULL ELSE H.connections_[s]

\* an iteration that reads c->next() after the call instead of before it
advance_nocache(H, f) == IF f.c = NULL THEN NULL ELSE H.next_[f.c]

\* Signal::operator(): "c = c_next" at the end of an iteration of frame f
advance(H, f) == f.c_next

----------------------------------------------------------------------------
\* Connection

\* a call operator with the blocked() test inverted
callsDelegate_inverted(H, c) == H.blocked_[c]

\* a call operator that does not test blocked()
callsDelegate_always(H, c) == TRUE

\* Connection::operator(): the delegate is called only if the Connection is not blocked
callsDelegate(H, c) == ~H.blocked_[c]

\* Connection::Connection(signal, ...), both overloads, and the free connect()
newConnection(H, s, c) ==
  connect([H EXCEPT !.connLive[c] = TRUE,
                    !.delegate_[c] = TRUE,
                    !.signal_[c] = NULL,
                    !.next_[c] = NULL,
                    !.blocked_[c] = FALSE], s, c)

\* a destructor that does not disconnect
destroyConnection_nodisc(H, c) ==
  [H EXCEPT !.delegate_[c] = FALSE,
            !.connLive[c] = FALSE,
            !.blocked_[c] = FALSE]

\* Connection::~Connection; the storage of c is released afterwards
destroyConnection(H, c) ==
  LET H1 == IF H.signal_[c] # NULL THEN disconnect(H, H.signal_[c], c) ELSE H
  IN [H1 EXCEPT !.delegate_[c] = FALSE,
                !.connLive[c] = FALSE,
                !.blocked_[c] = FALSE]

----------------------------------------------------------------------------
\* initial state: one Signal constructed, no Connection

Heap0 ==
  [sigLive |-> [s \in SignalIds |-> s = 1],
   connections_ |-> [s \in SignalIds |-> NULL],
   sig_blocked_ |-> [s \in SignalIds |-> FALSE],
   connLive |-> [c \in ConnIds |-> FALSE],
   delegate_ |-> [c \in ConnIds |-> FALSE],
   signal_ |-> [c \in ConnIds |-> NULL],
   next_ |-> [c \in ConnIds |-> NULL],
   blocked_ |-> [c \in ConnIds |-> FALSE]]

Init ==
  /\ sigLive = Heap0.sigLive
  /\ connections_ = Heap0.connections_
  /\ sig_blocked_ = Heap0.sig_blocked_
  /\ connLive = Heap0.connLive
  /\ delegate_ = Heap0.delegate_
  /\ signal_ = Heap0.signal_
  /\ next_ = Heap0.next_
  /\ blocked_ = Heap0.blocked_
  /\ stack = <<>>
  /\ reg = [s \in SignalIds |-> <<>>]
  /\ lastOp = [op |-> "init", sig |-> NULL, conn |-> NULL, pre |-> Heap0]

----------------------------------------------------------------------------
\* who is running

Top == stack[Len(stack)]

\* entries of a pass's log: delegate invocations and operations made by delegates
Call(s, c, fwd) == [k |-> "call", sig |-> s, c |-> c, fwd |-> fwd]
Ev(op, s, c) == [k |-> op, sig |-> s, c |-> c, fwd |-> FALSE]

Calls(log) == SelectSeq(log, LAMBDA e : e.k = "call")
Ops(log) == SelectSeq(log, LAMBDA e : e.k # "call")
Invoked(log) == [i \in 1..Len(Calls(log)) |-> Calls(log)[i].c]

\* the caller outside any emission is running
AtTop == stack = <<>>

\* the delegate of the Connection being visited by the innermost emission is running
InDelegate == stack # <<>> /\ Top.pc = "delegate" /\ Len(Ops(Top.log)) < MaxOps

\* an operation op on (s, c) ran: it enters the log of every pass in progress
Did(op, s, c) ==
  stack' = [i \in 1..Len(stack) |-> [stack[i] EXCEPT !.log = Append(@, Ev(op, s, c))]]

\* history: the operation op on (s, c) is the last one, and the heap it found
Noted(op, s, c) ==
  lastOp' = [op |-> op, sig |-> s, conn |-> c, pre |-> Heap]

----------------------------------------------------------------------------
\* the public operations, run by whoever is running

\* new Connection(signal, ...) / connect(signal, ...) at a free address c
Construct(s, c) ==
  /\ sigLive[s] /\ ~connLive[c]
  /\ SetHeap(newConnection(Heap, s, c))
  /\ reg' = [reg EXCEPT ![s] = Append(@, c)]
  /\ Did("construct", s, c)

\* s.disconnect(&c) for any live Connection c
Disconnect(s, c) ==
  /\ sigLive[s] /\ connLive[c]
  /\ SetHeap(disconnect(Heap, s, c))
  /\ reg' = [reg EXCEPT ![s] = Without(@, c)]
  /\ Did("disconnect", s, c)

\* delete c
DestroyConnection(c) ==
  /\ connLive[c]
  /\ SetHeap(destroyConnection(Heap, c))
  /\ reg' = IF signal_[c] # NULL THEN [reg EXCEPT ![signal_[c]] = Without(@, c)] ELSE reg
  /\ Did("destroy", signal_[c], c)

\* c.block()
ConnBlock(c) ==
  /\ connLive[c]
  /\ blocked_' = [blocked_ EXCEPT ![c] = TRUE]
  /\ UNCHANGED <<sigLive, connections_, sig_blocked_, connLive, delegate_, signal_, next_, reg>>
  /\ Did("block", signal_[c], c)

\* c.unblock()
ConnUnblock(c) ==
  /\ connLive[c]
  /\ blocked_' = [blocked_ EXCEPT ![c] = FALSE]
  /\ UNCHANGED <<sigLive, connections_, sig_blocked_, connLive, delegate_, signal_, next_, reg>>
  /\ Did("unblock", signal_[c], c)

\* s.block()
SignalBlock(s) ==
  /\ sigLive[s]
  /\ sig_blocked_' = [sig_blocked_ EXCEPT ![s] = TRUE]
  /\ UNCHANGED <<sigLive, connections_, connLive, delegate_, signal_, next_, blocked_, reg>>
  /\ Did("sblock", s, NULL)

\* s.unblock()
SignalUnblock(s) ==
  /\ sigLive[s]
  /\ sig_blocked_' = [sig_blocked_ EXCEPT ![s] = FALSE]
  /\ UNCHANGED <<sigLive, connections_, connLive, delegate_, signal_, next_, blocked_, reg>>
  /\ Did("sunblock", s, NULL)

\* Signal s is constructed at a free address
ConstructSignal(s) ==
  /\ ~sigLive[s]
  /\ SetHeap(newSignal(Heap, s))
  /\ reg' = [reg EXCEPT ![s] = <<>>]
  /\ Did("signal", s, NULL)

\* Signal s is copy-constructed from other at a free address; lastOp.conn is the new Signal
CopySignal(other, s) ==
  /\ sigLive[other] /\ ~sigLive[s]
  /\ SetHeap(copySignal(Heap, other, s))
  /\ reg' = [reg EXCEPT ![s] = <<>>]
  /\ Did("copy", other, s)

\* Signal s is destroyed; no emission of s is in progress
DestroySignal(s) ==
  /\ sigLive[s]
  /\ \A i \in 1..Len(stack) : stack[i].sig # s
  /\ SetHeap(destroySignal(Heap, s))
  /\ reg' = [reg EXCEPT ![s] = <<>>]
  /\ Did("destroySignal", s, NULL)

----------------------------------------------------------------------------
\* Signal::operator()

\* a loop that forwards the arguments in every call
forwards_always(c_next) == TRUE

\* if (c_next) (*c)(a...); else (*c)(std::forward<args>(a)...): the arguments
\* are forwarded, and so may be moved from, when no next Connection was read
forwards(c_next) == c_next = NULL

\* the emissions in progress, the call s(a...) entered in the log of the
\* emission whose delegate makes it
Emitting(s) ==
  [i \in 1..Len(stack) |->
     IF i = Len(stack)
     THEN [stack[i] EXCEPT !.log = Append(@, Ev("emit", s, NULL))]
     ELSE stack[i]]

\* an emission whose position in the list is shared with the emission around it
EmitBegin_sharedcursor(s) ==
  /\ sigLive[s]
  /\ Len(stack) < MaxDepth
  /\ stack' = Append(Emitting(s),
       [sig |-> s, pc |-> "loop",
        c |-> IF stack = <<>> THEN firstConn(Heap, s) ELSE Top.c_next,
        c_next |-> NULL, log |-> <<>>, uaf |-> FALSE, start |-> Heap])
  /\ UNCHANGED <<heapVars, reg>>

\* s(a...) is called, by the caller outside or by a delegate: the blocked()
\* test and the initialisation of c, both local to this call
EmitBegin(s) ==
  /\ sigLive[s]
  /\ Len(stack) < MaxDepth
  /\ stack' = Append(Emitting(s),
       [sig |-> s, pc |-> "loop",
        c |-> firstConn(Heap, s),
        c_next |-> NULL, log |-> <<>>, uaf |-> FALSE, start |-> Heap])
  /\ UNCHANGED <<heapVars, reg>>

\* one iteration up to the call of the delegate: c_next = c->next(); (*c)(a...)
\* A Connection that has been destroyed is released storage: what is read
\* from it is arbitrary.  A pass is followed up to its second such read.
Visit ==
  /\ stack # <<>> /\ Top.pc = "loop" /\ Top.c # NULL
  /\ Len(Top.log) < MaxLog
  /\ connLive[Top.c] \/ ~Top.uaf
  /\ LET c == Top.c IN
     \E nx \in {NULL} \cup ConnIds, b \in BOOLEAN :
       /\ connLive[c] => (nx = next_[c] /\ b = ~callsDelegate(Heap, c))
       /\ LET f == [Top EXCEPT !.c_next = nx, !.uaf = @ \/ ~connLive[c]]
          IN stack' = [stack EXCEPT ![Len(stack)] =
               IF b THEN [f EXCEPT !.c = advance(Heap, f)]
               ELSE [f EXCEPT !.pc = "delegate",
                              !.log = Append(@, Call(Top.sig, c, forwards(nx)))]]
  /\ UNCHANGED <<heapVars, reg>>

\* the delegate returns: c = c_next
DelegateReturn ==
  /\ stack # <<>> /\ Top.pc = "delegate"
  /\ stack' = [stack EXCEPT ![Len(stack)] = [Top EXCEPT !.c = advance(Heap, Top), !.pc = "loop"]]
  /\ UNCHANGED <<heapVars, reg>>

\* while(c) fails: the emission returns
EmitEnd ==
  /\ stack # <<>> /\ Top.pc = "loop" /\ Top.c = NULL
  /\ stack' = SubSeq(stack, 1, Len(stack) - 1)
  /\ UNCHANGED <<heapVars, reg>>

----------------------------------------------------------------------------
\* Spec: one Signal; the operations on it and on its Connections are
\* called from outside any emission, and delegates change neither the
\* Signal nor a Connection.

Next ==
  \/ AtTop /\ \E c \in ConnIds : Construct(1, c) /\ Noted("construct", 1, c)
  \/ AtTop /\ \E c \in ConnIds : Disconnect(1, c) /\ Noted("disconnect", 1, c)
  \/ AtTop /\ \E c \in ConnIds : DestroyConnection(c) /\ Noted("destroy", signal_[c], c)
  \/ AtTop /\ \E c \in ConnIds : ConnBlock(c) /\ Noted("block", signal_[c], c)
  \/ AtTop /\ \E c \in ConnIds : ConnUnblock(c) /\ Noted("unblock", signal_[c], c)
  \/ AtTop /\ SignalBlock(1) /\ Noted("sblock", 1, NULL)
  \/ AtTop /\ SignalUnblock(1) /\ Noted("sunblock", 1, NULL)
  \/ AtTop /\ EmitBegin(1) /\ UNCHANGED lastOp
  \/ Visit /\ UNCHANGED lastOp
  \/ DelegateReturn /\ UNCHANGED lastOp
  \/ EmitEnd /\ UNCHANGED lastOp

Spec == Init /\ [][Next]_vars

\* SpecSignals: several Signals are constructed, copied and destroyed, and
\* Connections are made on, disconnected from and destroyed with any of
\* them; nothing is emitted.  lastOp.conn of a copy is the new Signal.

NextSignals ==
  \/ AtTop /\ \E s \in SignalIds, c \in ConnIds : Construct(s, c) /\ Noted("construct", s, c)
  \/ AtTop /\ \E s \in SignalIds, c \in ConnIds : Disconnect(s, c) /\ Noted("disconnect", s, c)
  \/ AtTop /\ \E c \in ConnIds : DestroyConnection(c) /\ Noted("destroy", signal_[c], c)
  \/ AtTop /\ \E s \in SignalIds : SignalBlock(s) /\ Noted("sblock", s, NULL)
  \/ AtTop /\ \E s \in SignalIds : SignalUnblock(s) /\ Noted("sunblock", s, NULL)
  \/ AtTop /\ \E s \in SignalIds : ConstructSignal(s) /\ Noted("signal", s, NULL)
  \/ AtTop /\ \E o, s \in SignalIds : CopySignal(o, s) /\ Noted("copy", o, s)
  \/ AtTop /\ \E s \in SignalIds : DestroySignal(s) /\ Noted("destroySignal", s, NULL)

SpecSignals == Init /\ [][NextSignals]_vars

\* SpecDispatch: one Signal; delegates too disconnect and destroy its
\* Connections, at most MaxOps times in one pass.

Running == AtTop \/ InDelegate

NextDispatch ==
  \/ AtTop /\ \E c \in ConnIds : Construct(1, c) /\ UNCHANGED lastOp
  \/ Running /\ \E c \in ConnIds : Disconnect(1, c) /\ UNCHANGED lastOp
  \/ Running /\ \E c \in ConnIds : DestroyConnection(c) /\ UNCHANGED lastOp
  \/ AtTop /\ \E c \in ConnIds : ConnBlock(c) /\ UNCHANGED lastOp
  \/ AtTop /\ \E c \in ConnIds : ConnUnblock(c) /\ UNCHANGED lastOp
  \/ AtTop /\ EmitBegin(1) /\ UNCHANGED lastOp
  \/ Visit /\ UNCHANGED lastOp
  \/ DelegateReturn /\ UNCHANGED lastOp
  \/ EmitEnd /\ UNCHANGED lastOp

SpecDispatch == Init /\ [][NextDispatch]_vars

TypeOK ==
  /\ \A c \in ConnIds : signal_[c] \in {NULL} \cup SignalIds /\ next_[c] \in {NULL} \cup ConnIds
  /\ Len(stack) <= MaxDepth

----------------------------------------------------------------------------
\* vocabulary of the properties

\* the innermost emission has left its loop and is about to return
PassDone == stack # <<>> /\ Top.pc = "loop" /\ Top.c = NULL

\* the Signal was unblocked when the pass began
BeganUnblocked(f) == ~f.start.sig_blocked_[f.sig]

\* the list of the pass's Signal when the pass began
StartList(f) == ListIn(f.start, f.sig)

\* the members of q whose own blocked flag is false in heap H
Unblocked(H, q) == SelectSeq(q, LAMBDA x : ~H.blocked_[x])

\* the last operation called from outside any emission was op
LastTop(op) == lastOp.op = op

\* the list of Signal s before the last operation
PreList(s) == ListIn(lastOp.pre, s)

\* the positions in a log of the operations made by delegates
OpAt(log) == {i \in 1..Len(log) : log[i].k # "call"}

\* the Connection whose delegate was running at position i of a log
CallerAt(log, i) ==
  LET js == {j \in 1..(i - 1) : log[j].k = "call"}
  IN IF js = {} THEN NULL
     ELSE log[CHOOSE j \in js : \A k \in js : k <= j].c

\* how many times the delegate of x is invoked from position i of a log on
CallsFrom(log, i, x) == Cardinality({j \in i..Len(log) : log[j].k = "call" /\ log[j].c = x})

\* the pass of frame f saw exactly one operation by a delegate, op on its own Signal
OneOp(f, op) ==
  /\ Cardinality(OpAt(f.log)) = 1
  /\ \A i \in OpAt(f.log) : f.log[i].k = op /\ f.log[i].sig = f.sig

----------------------------------------------------------------------------
\* C1: when a pass over an unblocked Signal none of whose Connections is
\* blocked ends, the delegates invoked are exactly the registered
\* Connections, each once, most recently registered first.
C1_ReverseRegistrationOrder ==
  (PassDone /\ BeganUnblocked(Top) /\ Ops(Top.log) = <<>>
     /\ \A c \in Range(reg[Top.sig]) : ~blocked_[c])
  => Invoked(Top.log) = Reverse(reg[Top.sig])

C1_Witness ==
  /\ PassDone /\ BeganUnblocked(Top)
  /\ reg[Top.sig] = <<2, 3, 1>>
  /\ \A c \in ConnIds : ~blocked_[c]
  /\ Invoked(Top.log) = <<1, 3, 2>>

\* C2: disconnect(c) for a c in the list, outside a pass, leaves the list
\* without c and otherwise as it was, clears c's next_ and signal_, and the
\* next emission invokes the other (unblocked) Connections in their prior order.
C2_DisconnectRemovesExactly ==
  (LastTop("disconnect") /\ lastOp.conn \in Range(PreList(lastOp.sig)))
  => /\ next_[lastOp.conn] = NULL
     /\ signal_[lastOp.conn] = NULL
     /\ List(lastOp.sig) = Without(PreList(lastOp.sig), lastOp.conn)
     /\ (PassDone /\ Top.sig = lastOp.sig /\ BeganUnblocked(Top))
          => Invoked(Top.log) =
               Unblocked(lastOp.pre, Without(PreList(lastOp.sig), lastOp.conn))

C2_Witness ==
  /\ LastTop("disconnect")
  /\ Len(PreList(lastOp.sig)) = 3
  /\ PreList(lastOp.sig)[2] = lastOp.conn
  /\ PassDone /\ Top.sig = lastOp.sig
  /\ Invoked(Top.log) = <<PreList(lastOp.sig)[1], PreList(lastOp.sig)[3]>>

\* C3: destroying a registered Connection outside a pass leaves its Signal's
\* list without it and otherwise as it was, leaves no pointer to it in any
\* list, releases its delegate, and the next emission does not invoke it.
C3_DestroyConnectionUnlinks ==
  (LastTop("destroy") /\ lastOp.sig # NULL)
  => /\ ~connLive[lastOp.conn]
     /\ ~delegate_[lastOp.conn]
     /\ List(lastOp.sig) = Without(PreList(lastOp.sig), lastOp.conn)
     /\ \A s \in SignalIds : connections_[s] # lastOp.conn
     /\ \A x \in ConnIds : next_[x] # lastOp.conn
     /\ (PassDone /\ Top.sig = lastOp.sig)
          => /\ lastOp.conn \notin Range(Invoked(Top.log))
             /\ BeganUnblocked(Top) =>
                  Invoked(Top.log) =
                    Unblocked(lastOp.pre, Without(PreList(lastOp.sig), lastOp.conn))

C3_Witness ==
  /\ LastTop("destroy") /\ lastOp.sig # NULL
  /\ Len(PreList(lastOp.sig)) = 3
  /\ PreList(lastOp.sig)[2] = lastOp.conn
  /\ PassDone /\ Top.sig = lastOp.sig
  /\ Len(Invoked(Top.log)) = 2

\* C4: destroying a Signal leaves every Connection of its list alive, with
\* its delegate, not connected and with a null next_, and leaves the list
\* empty.
C4_DestroySignalSevers ==
  LastTop("destroySignal")
  => /\ \A c \in Range(PreList(lastOp.sig)) :
           /\ connLive[c] /\ delegate_[c]
           /\ signal_[c] = NULL
           /\ next_[c] = NULL
     /\ connections_[lastOp.sig] = NULL
     /\ ~sigLive[lastOp.sig]

C4_Witness ==
  /\ LastTop("destroySignal")
  /\ Len(PreList(lastOp.sig)) = 3
  /\ \A c \in ConnIds : connLive[c] /\ signal_[c] = NULL

\* C5: a pass that begins on a blocked Signal invokes nothing; block() and
\* unblock() of a Signal change no list and no Connection's flag; the
\* emission after unblock() invokes the Connections whose own flag is false.
C5_SignalBlockSuppressesAll ==
  /\ (PassDone /\ ~BeganUnblocked(Top)) => Top.log = <<>>
  /\ lastOp.op \in {"sblock", "sunblock"}
       => /\ \A s \in SignalIds : List(s) = PreList(s)
          /\ blocked_ = lastOp.pre.blocked_
          /\ sig_blocked_[lastOp.sig] = (lastOp.op = "sblock")
  /\ (LastTop("sunblock") /\ PassDone /\ Top.sig = lastOp.sig)
       => Invoked(Top.log) = Unblocked(lastOp.pre, PreList(lastOp.sig))

C5_Witness ==
  /\ LastTop("sunblock") /\ lastOp.pre.sig_blocked_[lastOp.sig]
  /\ PassDone /\ Top.sig = lastOp.sig
  /\ Len(PreList(lastOp.sig)) = 3
  /\ Len(Invoked(Top.log)) = 2

C5_WitnessBlocked ==
  /\ PassDone /\ ~BeganUnblocked(Top)
  /\ Len(StartList(Top)) = 3
  /\ \E c \in Range(StartList(Top)) : ~blocked_[c]

\* C6: a pass over an unblocked Signal invokes exactly the Connections of
\* the list whose blocked flag is false, each once, in list order; a
\* Connection of the list that was just unblocked is invoked.
C6_ConnectionBlockSuppressesOne ==
  /\ (PassDone /\ BeganUnblocked(Top) /\ Ops(Top.log) = <<>>)
       => Invoked(Top.log) = Unblocked(Top.start, StartList(Top))
  /\ (LastTop("unblock") /\ PassDone /\ BeganUnblocked(Top)
        /\ lastOp.conn \in Range(StartList(Top)))
       => lastOp.conn \in Range(Invoked(Top.log))

C6_Witness ==
  /\ LastTop("unblock") /\ lastOp.pre.blocked_[lastOp.conn]
  /\ PassDone /\ BeganUnblocked(Top)
  /\ Len(StartList(Top)) = 3
  /\ StartList(Top)[2] = lastOp.conn
  /\ blocked_[StartList(Top)[1]]
  /\ Invoked(Top.log) = <<StartList(Top)[2], StartList(Top)[3]>>

\* C7: when the only operation during a pass is the running Connection
\* disconnecting itself, the pass invokes what it would have invoked
\* anyway: every unblocked Connection after it in the starting list, once
\* and in list order; and the Connection is out of the list afterwards.
C7_SelfDisconnectKeepsTraversal ==
  (PassDone /\ BeganUnblocked(Top) /\ OneOp(Top, "disconnect"))
  => \A i \in OpAt(Top.log) :
       LET c == Top.log[i].c
       IN c = CallerAt(Top.log, i)
          => /\ After(Invoked(Top.log), c) = Unblocked(Top.start, After(StartList(Top), c))
             /\ Invoked(Top.log) = Unblocked(Top.start, StartList(Top))
             /\ c \notin Range(List(Top.sig))
             /\ signal_[c] = NULL

C7_Witness ==
  /\ PassDone /\ BeganUnblocked(Top) /\ OneOp(Top, "disconnect")
  /\ Len(StartList(Top)) = 3
  /\ \A i \in OpAt(Top.log) :
        /\ Top.log[i].c = CallerAt(Top.log, i)
        /\ Top.log[i].c = StartList(Top)[1]
  /\ Invoked(Top.log) = StartList(Top)
  /\ List(Top.sig) = Tail(StartList(Top))

\* C8: when the only operation during a pass is a delegate disconnecting
\* another Connection of the list, that Connection is not invoked after
\* it, and every Connection not yet visited that is still registered and
\* unblocked is invoked exactly once.
C8_DisconnectOtherKeepsTraversal ==
  (PassDone /\ BeganUnblocked(Top) /\ OneOp(Top, "disconnect"))
  => \A i \in OpAt(Top.log) :
       LET x == Top.log[i].c
       IN (x # CallerAt(Top.log, i) /\ x \in Range(StartList(Top)))
          => /\ CallsFrom(Top.log, i, x) = 0
             /\ \A y \in Range(List(Top.sig)) :
                  (CallsFrom(Top.log, 1, y) = CallsFrom(Top.log, i, y) /\ ~blocked_[y])
                  => CallsFrom(Top.log, i, y) = 1

\* C9: a pass never reads the next_ of, or invokes, a Connection that has
\* been destroyed.
C9_NoUseOfDestroyed ==
  \A i \in 1..Len(stack) : ~stack[i].uaf

\* C10: a copy-constructed Signal has an empty list and the blocked flag of
\* its source; the source's list and flag and every Connection's signal_ and
\* next_ are as before, and no Connection refers to the new Signal.
C10_CopyConstruct ==
  LastTop("copy")
  => LET src == lastOp.sig
         dst == lastOp.conn
     IN /\ sigLive[dst]
        /\ connections_[dst] = NULL
        /\ sig_blocked_[dst] = lastOp.pre.sig_blocked_[src]
        /\ connections_[src] = lastOp.pre.connections_[src]
        /\ sig_blocked_[src] = lastOp.pre.sig_blocked_[src]
        /\ signal_ = lastOp.pre.signal_
        /\ next_ = lastOp.pre.next_
        /\ \A c \in ConnIds : signal_[c] # dst

C10_Witness ==
  /\ LastTop("copy")
  /\ lastOp.pre.sig_blocked_[lastOp.sig]
  /\ Len(List(lastOp.sig)) = 3
  /\ sig_blocked_[lastOp.conn]
  /\ connections_[lastOp.conn] = NULL

\* C11: disconnect(c) on a Signal whose list does not hold the live Connection
\* c (c is registered with another Signal, or was removed before) changes
\* nothing: every Signal's head and flag and every Connection's signal_, next_
\* and flag are as before the call; so a second disconnect equals the first.
C11_DisconnectAbsentIsNoOp ==
  (LastTop("disconnect") /\ lastOp.conn \notin Range(PreList(lastOp.sig)))
  => Heap = lastOp.pre

C11_Witness ==
  /\ LastTop("disconnect")
  /\ lastOp.pre.signal_[lastOp.conn] \notin {NULL, lastOp.sig}
  /\ Len(PreList(lastOp.pre.signal_[lastOp.conn])) = 2
  /\ PreList(lastOp.pre.signal_[lastOp.conn])[2] = lastOp.conn
  /\ PreList(lastOp.sig) # <<>>
  /\ Heap = lastOp.pre

----------------------------------------------------------------------------
\* SpecConnecting: one Signal; delegates too make new Connections on it, at
\* most MaxOps times in one pass.  lastOp tells a Connection made by a
\* delegate ("constructInPass") from one made outside any emission.

NextConnecting ==
  \/ AtTop /\ \E c \in ConnIds : Construct(1, c) /\ Noted("construct", 1, c)
  \/ InDelegate /\ \E c \in ConnIds : Construct(1, c) /\ Noted("constructInPass", 1, c)
  \/ AtTop /\ \E c \in ConnIds : DestroyConnection(c) /\ Noted("destroy", signal_[c], c)
  \/ AtTop /\ \E c \in ConnIds : ConnBlock(c) /\ Noted("block", signal_[c], c)
  \/ AtTop /\ EmitBegin(1) /\ UNCHANGED lastOp
  \/ Visit /\ UNCHANGED lastOp
  \/ DelegateReturn /\ UNCHANGED lastOp
  \/ EmitEnd /\ UNCHANGED lastOp

SpecConnecting == Init /\ [][NextConnecting]_vars

\* C12: a Connection made on the Signal by a delegate during a pass is not
\* invoked by that pass, which invokes what it would have invoked without it;
\* the new Connection is the head of the list, and when the next emission
\* follows it is the first Connection that emission invokes.
C12_ConnectDuringPass ==
  /\ (stack # <<>> /\ Top.log # <<>> /\ Top.log[Len(Top.log)].k = "construct")
       => connections_[Top.sig] = Top.log[Len(Top.log)].c
  /\ (PassDone /\ BeganUnblocked(Top) /\ OpAt(Top.log) # {})
       => /\ \A i \in OpAt(Top.log) : CallsFrom(Top.log, 1, Top.log[i].c) = 0
          /\ Invoked(Top.log) = Unblocked(Top.start, StartList(Top))
  /\ (PassDone /\ BeganUnblocked(Top) /\ OpAt(Top.log) = {} /\ LastTop("constructInPass"))
       => /\ Invoked(Top.log) # <<>>
          /\ Invoked(Top.log)[1] = lastOp.conn

\* a delegate made a Connection while two Connections were still to be
\* visited; the next emission has begun with it and ended
C12_Witness ==
  /\ PassDone /\ OpAt(Top.log) = {} /\ LastTop("constructInPass")
  /\ Len(ListIn(lastOp.pre, 1)) = 2
  /\ Len(Invoked(Top.log)) = 3
  /\ Invoked(Top.log)[1] = lastOp.conn

----------------------------------------------------------------------------
\* SpecRaw: Signal::connect is public, and here it is also called directly
\* with any live Connection, on any live Signal.  A behaviour is followed up
\* to the first state in which some list is no longer well formed: from there
\* on a call may read released storage or loop for ever.

\* s.connect(&p) for any live Connection p
Connect(s, p) ==
  /\ sigLive[s] /\ connLive[p]
  /\ SetHeap(connect(Heap, s, p))
  /\ reg' = [reg EXCEPT ![s] = Append(Without(@, p), p)]
  /\ Did("connect", s, p)

\* the live Connections whose signal_ is s
Registered(s) == {c \in ConnIds : connLive[c] /\ signal_[c] = s}

\* every list ends, repeats nothing and holds the Connections that name its
\* Signal, and no live Connection names a destroyed Signal
WellFormed ==
  /\ \A s \in SignalIds :
       sigLive[s] => /\ Len(List(s)) <= MaxConns
                     /\ NoDup(List(s))
                     /\ Range(List(s)) = Registered(s)
  /\ \A c \in ConnIds :
       connLive[c] => IF signal_[c] = NULL THEN TRUE ELSE sigLive[signal_[c]]

NextRaw ==
  \/ WellFormed /\ \E s \in SignalIds, c \in ConnIds : Construct(s, c) /\ UNCHANGED lastOp
  \/ WellFormed /\ \E s \in SignalIds, c \in ConnIds : Connect(s, c) /\ UNCHANGED lastOp
  \/ WellFormed /\ \E s \in SignalIds, c \in ConnIds : Disconnect(s, c) /\ UNCHANGED lastOp
  \/ WellFormed /\ \E c \in ConnIds : DestroyConnection(c) /\ UNCHANGED lastOp
  \/ WellFormed /\ \E s \in SignalIds : ConstructSignal(s) /\ UNCHANGED lastOp
  \/ WellFormed /\ \E o, s \in SignalIds : CopySignal(o, s) /\ UNCHANGED lastOp
  \/ WellFormed /\ \E s \in SignalIds : DestroySignal(s) /\ UNCHANGED lastOp

SpecRaw == Init /\ [][NextRaw]_vars

\* C13: a live Connection's signal_ is a Signal exactly when the Connection
\* can be reached from that Signal's head, and no Connection can be reached
\* from the heads of two Signals.
C13_RegisteredIffListed ==
  /\ \A s \in SignalIds : sigLive[s] => Registered(s) = Range(List(s))
  /\ \A c \in ConnIds :
       connLive[c] => IF signal_[c] = NULL THEN TRUE ELSE sigLive[signal_[c]]
  /\ \A s, t \in SignalIds :
       (sigLive[s] /\ sigLive[t] /\ s # t) => Range(List(s)) \cap Range(List(t)) = {}

\* C14: following next_ from the head of a live Signal ends in null and
\* meets each Connection registered with the Signal once and no other.
C14_ListIsSimpleChain ==
  \A s \in SignalIds :
    sigLive[s] =>
      LET w == Walk(Heap, connections_[s], Fuel)
      IN /\ Len(w) < Fuel
         /\ \A c \in Registered(s) : Cardinality({i \in 1..Len(w) : w[i] = c}) = 1
         /\ \A i \in 1..Len(w) : w[i] \in Registered(s)

\* C15: whatever the order in which Connections and Signals are made and
\* destroyed outside any emission, the list of a live Signal holds live
\* Connections only, the signal_ of a live Connection is null or a live
\* Signal, and the destructor of a Connection called disconnect on a Signal
\* that was live.
C15_MutualInvalidation ==
  /\ \A s \in SignalIds : sigLive[s] => \A x \in Range(List(s)) : connLive[x]
  /\ \A c \in ConnIds :
       (connLive[c] /\ signal_[c] # NULL) => sigLive[signal_[c]]
  /\ (LastTop("destroy") /\ lastOp.sig # NULL) => lastOp.pre.sigLive[lastOp.sig]

\* a Connection of a two-element list was destroyed while its Signal lives,
\* and another Connection has outlived the Signal it was made on
C15_Witness ==
  /\ LastTop("destroy") /\ lastOp.sig # NULL
  /\ Len(PreList(lastOp.sig)) = 2
  /\ sigLive[lastOp.sig] /\ Len(List(lastOp.sig)) = 1
  /\ \E s \in SignalIds : ~sigLive[s]
  /\ \E c \in ConnIds :
       connLive[c] /\ signal_[c] = NULL /\ \A s \in SignalIds : c \notin Range(reg[s])

----------------------------------------------------------------------------
\* SpecFlags: one Signal; delegates too set and clear the blocked flag of the
\* Signal and of its Connections, at most MaxOps times in one pass.

NextFlags ==
  \/ AtTop /\ \E c \in ConnIds : Construct(1, c) /\ UNCHANGED lastOp
  \/ Running /\ \E c \in ConnIds : ConnBlock(c) /\ UNCHANGED lastOp
  \/ Running /\ \E c \in ConnIds : ConnUnblock(c) /\ UNCHANGED lastOp
  \/ Running /\ SignalBlock(1) /\ UNCHANGED lastOp
  \/ Running /\ SignalUnblock(1) /\ UNCHANGED lastOp
  \/ AtTop /\ EmitBegin(1) /\ UNCHANGED lastOp
  \/ Visit /\ UNCHANGED lastOp
  \/ DelegateReturn /\ UNCHANGED lastOp
  \/ EmitEnd /\ UNCHANGED lastOp

SpecFlags == Init /\ [][NextFlags]_vars

\* the blocked flag of the pass's Signal when entry i of the pass's log was made
SigBlockedAt(f, i) ==
  LET js == {j \in 1..(i - 1) : f.log[j].k \in {"sblock", "sunblock"}}
  IN IF js = {} THEN f.start.sig_blocked_[f.sig]
     ELSE f.log[CHOOSE j \in js : \A k \in js : k <= j].k = "sblock"

\* C16: a pass invokes a Connection only while the blocked flag of its Signal
\* is false, also when a delegate sets the flag during the pass.
C16_NoInvocationWhileBlocked ==
  \A n \in 1..Len(stack) :
    \A i \in 1..Len(stack[n].log) :
      stack[n].log[i].k = "call" => ~SigBlockedAt(stack[n], i)

\* the pass has ended and its delegates made one call in all, a block() or
\* an unblock() of a Connection of the pass's Signal
OneFlagOp(f) == OneOp(f, "block") \/ OneOp(f, "unblock")

\* entry i of the log is about a Connection the pass had not reached yet
NotYetVisited(f, i) == f.log[i].c \in Range(After(StartList(f), CallerAt(f.log, i)))

\* C17 as stated: block() or unblock() of a not yet visited Connection by a
\* delegate leaves the pass in progress invoking what it would have invoked
\* without the call.
C17_FlagAppliesNextPass ==
  (PassDone /\ BeganUnblocked(Top) /\ OneFlagOp(Top))
  => \A i \in OpAt(Top.log) :
       NotYetVisited(Top, i) => Invoked(Top.log) = Unblocked(Top.start, StartList(Top))

\* C17 amended: the flag is read when the Connection is visited.  After a
\* block() or unblock() by a delegate on a not yet visited Connection, the pass
\* in progress invokes the Connections whose flag is false after the call;
\* on the running or an already visited Connection, the pass invokes what it
\* would have invoked without the call.
C17_FlagAppliesAtVisit ==
  (PassDone /\ BeganUnblocked(Top) /\ OneFlagOp(Top))
  => \A i \in OpAt(Top.log) :
       Invoked(Top.log) =
         IF NotYetVisited(Top, i)
         THEN Unblocked(Heap, StartList(Top))
         ELSE Unblocked(Top.start, StartList(Top))

\* the first delegate of a pass over three Connections blocked the last one,
\* and the pass ended without invoking it
C17_Witness ==
  /\ PassDone /\ BeganUnblocked(Top) /\ OneOp(Top, "block")
  /\ Len(StartList(Top)) = 3
  /\ Unblocked(Top.start, StartList(Top)) = StartList(Top)
  /\ \E i \in OpAt(Top.log) : i = 2 /\ Top.log[i].c = StartList(Top)[3]
  /\ Invoked(Top.log) = SubSeq(StartList(Top), 1, 2)

\* C18: in every pass, also one whose delegates disconnect or destroy
\* Connections, an invocation that is followed by another invocation of the
\* same pass received the arguments as copies; they are forwarded (and may be
\* moved from) only in the invocation that is the last of the pass.
C18_ForwardOnlyLast ==
  \A n \in 1..Len(stack) :
    LET log == stack[n].log
    IN \A i, j \in 1..Len(log) :
         (i < j /\ log[i].k = "call" /\ log[j].k = "call") => ~log[i].fwd

\* a pass over three Connections in which a delegate disconnected one has
\* ended: its last invocation was forwarding and the one before was not
C18_Witness ==
  /\ PassDone /\ OneOp(Top, "disconnect")
  /\ Len(StartList(Top)) = 3
  /\ Len(Calls(Top.log)) = 2
  /\ ~Calls(Top.log)[1].fwd
  /\ Calls(Top.log)[2].fwd
  /\ ~Top.uaf

----------------------------------------------------------------------------
\* SpecReentrant: one Signal; delegates emit the Signal again, at most
\* MaxOps times in one pass and at most MaxDepth emissions deep, and change
\* neither the list nor a blocked flag.

NextReentrant ==
  \/ AtTop /\ \E c \in ConnIds : Construct(1, c) /\ UNCHANGED lastOp
  \/ AtTop /\ \E c \in ConnIds : ConnBlock(c) /\ UNCHANGED lastOp
  \/ AtTop /\ \E c \in ConnIds : ConnUnblock(c) /\ UNCHANGED lastOp
  \/ Running /\ EmitBegin(1) /\ UNCHANGED lastOp
  \/ Visit /\ UNCHANGED lastOp
  \/ DelegateReturn /\ UNCHANGED lastOp
  \/ EmitEnd /\ UNCHANGED lastOp

SpecReentrant == Init /\ [][NextReentrant]_vars

\* an emission that returns has invoked the unblocked Connections of the
\* list once each, head first
Complete(f) ==
  /\ f.pc = "loop" /\ f.c = NULL
  /\ f.start = Heap
  /\ Invoked(f.log) = Unblocked(Heap, List(f.sig))

\* the emissions around the innermost one wait in the delegate that made
\* the call, which is the last entry of their log
Suspended ==
  \A n \in 1..(Len(stack) - 1) :
    /\ stack[n].pc = "delegate"
    /\ stack[n].log[Len(stack[n].log)].k = "emit"

\* C19: when delegates emit the same Signal again and change nothing, every
\* emission, inner or outer, invokes each unblocked Connection of the list
\* once, head first, before it returns; while an inner emission runs, the
\* emissions around it stay where they were, and they go on only after the
\* inner one has run over the whole list.
C19_ReentrantEmission ==
  /\ []((PassDone /\ BeganUnblocked(Top)) => Complete(Top))
  /\ []Suspended
  /\ [][Len(stack') < Len(stack) => Complete(Top)]_vars
  /\ [][\A n \in 1..(Len(stack) - 1) :
          stack'[n] # stack[n] => Len(stack') = n + 1 /\ Len(stack) = n]_vars

\* an outer pass over three Connections whose second delegate emitted the
\* Signal again has ended, with one Connection blocked
C19_Witness ==
  /\ Len(stack) = 1 /\ PassDone
  /\ Len(List(1)) = 3 /\ blocked_[List(1)[3]]
  /\ Len(Invoked(Top.log)) = 2
  /\ Len(Top.log) = 3
  /\ Top.log[3].k = "emit"

----------------------------------------------------------------------------
\* SpecRoundTrip: one Signal, no emission; lastOp also keeps the operation
\* before the last one and the heap that one found.

NotedAfter(op, s, c) ==
  lastOp' = [op |-> op, sig |-> s, conn |-> c, pre |-> Heap,
             prev |-> [op |-> lastOp.op, sig |-> lastOp.sig,
                       conn |-> lastOp.conn, pre |-> lastOp.pre]]

NextRoundTrip ==
  \/ \E c \in ConnIds : Construct(1, c) /\ NotedAfter("construct", 1, c)
  \/ \E c \in ConnIds : Disconnect(1, c) /\ NotedAfter("disconnect", 1, c)
  \/ \E c \in ConnIds : DestroyConnection(c) /\ NotedAfter("destroy", signal_[c], c)
  \/ \E c \in ConnIds : ConnBlock(c) /\ NotedAfter("block", signal_[c], c)
  \/ SignalBlock(1) /\ NotedAfter("sblock", 1, NULL)
  \/ SignalUnblock(1) /\ NotedAfter("sunblock", 1, NULL)

SpecRoundTrip == Init /\ [][NextRoundTrip]_vars

\* the last two operations made a Connection and then removed that Connection
RoundTrip ==
  /\ lastOp.op \in {"disconnect", "destroy"}
  /\ lastOp.prev.op = "construct"
  /\ lastOp.prev.conn = lastOp.conn

\* C20: making a Connection on a Signal and removing it at once, by
\* disconnect or by destroying it, gives back the head, the order and the
\* next_ and signal_ of the other Connections, and every blocked flag.
C20_ConnectDisconnectRoundTrip ==
  RoundTrip
  => LET H0 == lastOp.prev.pre
         c == lastOp.conn
     IN /\ connections_ = H0.connections_
        /\ \A s \in SignalIds : List(s) = ListIn(H0, s)
        /\ \A x \in ConnIds \ {c} : next_[x] = H0.next_[x] /\ signal_[x] = H0.signal_[x]
        /\ blocked_ = H0.blocked_
        /\ sig_blocked_ = H0.sig_blocked_
        /\ signal_[c] = NULL /\ next_[c] = NULL

\* a Connection was made on a blocked Signal with two Connections, one of
\* them blocked, and then destroyed
C20_Witness ==
  /\ RoundTrip /\ lastOp.op = "destroy"
  /\ Len(List(1)) = 2
  /\ blocked_[List(1)[1]] /\ ~blocked_[List(1)[2]]
  /\ sig_blocked_[1]
  /\ Len(ListIn(lastOp.pre, 1)) = 3

====
